---- MODULE Spec2Model ----
(***************************************************************************)
(* RiscVEdk2SbiLib: the S-mode library that wraps the SBI ecall.           *)
(*                                                                         *)
(* A machine word (UINTN, long, a pointer) is represented by the signed    *)
(* integer of its two's complement bit pattern, so the conversion between  *)
(* long and UINTN (a reinterpretation of the same bits) keeps the number:  *)
(* SBI_ERR_FAILED is -1 both as sbiret.error and as the case label that    *)
(* TranslateError compares it with.                                        *)
(*                                                                         *)
(* One wrapper invocation of a hart is two steps: the wrapper up to and    *)
(* including the ecall instruction, and from the return of the SBI         *)
(* runtime to the wrapper's return statement.                              *)
(***************************************************************************)
EXTENDS Integers, Sequences, FiniteSets, TLC

\* ------------------------------------------------------------------ bounds
NumHarts == 2
MaxVal == 1
MaxNumArgs == 7

Harts == 0 .. (NumHarts - 1)
Values == 0 .. MaxVal

\* --------------------------------------------------- constants of the code
SBI_SUCCESS == 0
SBI_ERR_FAILED == -1
SBI_ERR_NOT_SUPPORTED == -2
SBI_ERR_INVALID_PARAM == -3
SBI_ERR_DENIED == -4
SBI_ERR_INVALID_ADDRESS == -5
SBI_ERR_ALREADY_AVAILABLE == -6

SBI_EXT_BASE == 16
SBI_EXT_HSM == 4739917
SBI_EXT_TIME == 1414090053
SBI_EXT_IPI == 7557193
SBI_EXT_RFENCE == 1380339267

SBI_EXT_FIRMWARE_CODE_BASE_START == 167772160
SBI_EXT_FIRMWARE_CODE_BASE_END == 184549375
SBI_OPENSBI_IMPID == 1

SBI_EXT_BASE_GET_SPEC_VERSION == 0
SBI_EXT_BASE_GET_IMP_ID == 1
SBI_EXT_BASE_GET_IMP_VERSION == 2
SBI_EXT_BASE_PROBE_EXT == 3
SBI_EXT_BASE_GET_MVENDORID == 4
SBI_EXT_BASE_GET_MARCHID == 5
SBI_EXT_BASE_GET_MIMPID == 6

SBI_EXT_HSM_HART_START == 0
SBI_EXT_HSM_HART_STOP == 1
SBI_EXT_HSM_HART_GET_STATUS == 2

SBI_EXT_TIME_SET_TIMER == 0
SBI_EXT_IPI_SEND_IPI == 0

SBI_EXT_RFENCE_REMOTE_FENCE_I == 0
SBI_EXT_RFENCE_REMOTE_SFENCE_VMA == 1
SBI_EXT_RFENCE_REMOTE_SFENCE_VMA_ASID == 2
SBI_EXT_RFENCE_REMOTE_HFENCE_GVMA == 3
SBI_EXT_RFENCE_REMOTE_HFENCE_GVMA_VMID == 4
SBI_EXT_RFENCE_REMOTE_HFENCE_VVMA == 5
SBI_EXT_RFENCE_REMOTE_HFENCE_VVMA_ASID == 6

SBI_EXT_FW_MSCRATCH_FUNC == 0
SBI_EXT_FW_MSCRATCH_HARTID_FUNC == 1

SBI_EXT_VENDOR_START == 150994944
SBI_EXT_VENDOR_END == 167772159

\* The values of HartStatus.
STARTED == 0
STOPPED == 1
START_REQUEST_PENDING == 2
STOP_REQUEST_PENDING == 3

\* The number of HartSpecific slots, one too few.
RISC_V_MAX_HART_SUPPORTED_mut == 16 - 1
RISC_V_MAX_HART_SUPPORTED == 16

\* Bitwise OR of two non-negative words.
RECURSIVE BitOr(_, _)
BitOr(x, y) ==
  IF x = 0 THEN y
  ELSE IF y = 0 THEN x
  ELSE (IF x % 2 = 1 \/ y % 2 = 1 THEN 1 ELSE 0) + 2 * BitOr(x \div 2, y \div 2)

\* (SBI_EXT_FIRMWARE_CODE_BASE_START | SBI_OPENSBI_IMPID) for an implementation
\* id ImpId; the same with the upper end of the range added to the id.
FwExtOf_mut(ImpId) == SBI_EXT_FIRMWARE_CODE_BASE_END + ImpId
FwExtOf(ImpId) == BitOr(SBI_EXT_FIRMWARE_CODE_BASE_START, ImpId)

SBI_EDK2_FW_EXT == FwExtOf(SBI_OPENSBI_IMPID)

\* The status codes a trap can leave in a0: the seven defined ones and one
\* that the SBI has not defined.
DefinedCodes ==
  { SBI_SUCCESS, SBI_ERR_FAILED, SBI_ERR_NOT_SUPPORTED, SBI_ERR_INVALID_PARAM,
    SBI_ERR_DENIED, SBI_ERR_INVALID_ADDRESS, SBI_ERR_ALREADY_AVAILABLE }
UndefinedCodes == { -7 }
FailureCodes == (DefinedCodes \ {SBI_SUCCESS}) \cup UndefinedCodes

\* ------------------------------------------------------------------- state
VARIABLES
  AssertHalts,       \* build: a failed ASSERT() stops the hart (DEBUG build with
                     \* breakpoint/deadloop) or is a no-op (RELEASE, MDEPKG_NDEBUG)
  supported,         \* runtime: the extension ids the SBI runtime implements
  platform_addr,     \* runtime: per hart, scratch->platform_addr (which sbi_platform)
  firmware_context,  \* runtime: per sbi_platform, its firmware_context field
  pc,                \* per hart: "idle", "ecall" (trapped), "stored0" and
                     \* "stored1" (one piece of the store of
                     \* SbiSetFirmwareContext made), "done", "halted",
                     \* "stopped" (the hart stop was accepted)
  cur,               \* per hart: the wrapper being executed and its inputs
  regs,              \* per hart: a0..a5, a6, a7 at the hart's last ecall
  rtret,             \* per hart: what the runtime left in a0, a1
  sbiret,            \* per hart: the struct sbiret SbiCall gave the wrapper
  ntraps,            \* per hart: ecalls executed since the current invocation began
  out,               \* per hart: the caller's variable the OUT pointer of the
                     \* invocation names
  ret,               \* per hart: the wrapper's return value
  hart_status,       \* runtime: per hart, its HSM status (STARTED, ...)
  effect,            \* per hart: what the runtime did to the harts at the
                     \* hart's last ecall (signal or fence, and to whom)
  HartSpecific,      \* the HartSpecific table of the firmware context structure
  ImpId,             \* the implementation id the extension id is built from
  FwExt              \* the firmware extension id built from ImpId (0: not yet)

vars == << AssertHalts, supported, platform_addr, firmware_context,
           pc, cur, regs, rtret, sbiret, ntraps, out, ret,
           hart_status, effect, HartSpecific, ImpId, FwExt >>

envvars == << AssertHalts, supported, platform_addr, HartSpecific, ImpId, FwExt >>

\* ---------------------------------------------------------- TranslateError
\* TranslateError with the result of SBI_ERR_INVALID_ADDRESS taken from the
\* case above it.
TranslateError_mut(SbiError) ==
  CASE SbiError = SBI_SUCCESS -> "EFI_SUCCESS"
    [] SbiError = SBI_ERR_FAILED -> "EFI_DEVICE_ERROR"
    [] SbiError = SBI_ERR_NOT_SUPPORTED -> "EFI_UNSUPPORTED"
    [] SbiError = SBI_ERR_INVALID_PARAM -> "EFI_INVALID_PARAMETER"
    [] SbiError = SBI_ERR_DENIED -> "EFI_ACCESS_DENIED"
    [] SbiError = SBI_ERR_INVALID_ADDRESS -> "EFI_INVALID_PARAMETER"
    [] SbiError = SBI_ERR_ALREADY_AVAILABLE -> "EFI_ALREADY_STARTED"
    [] OTHER -> "EFI_UNSUPPORTED"

\* The EFI_STATUS that the return statements of TranslateError name.
TranslateError(SbiError) ==
  CASE SbiError = SBI_SUCCESS -> "EFI_SUCCESS"
    [] SbiError = SBI_ERR_FAILED -> "EFI_DEVICE_ERROR"
    [] SbiError = SBI_ERR_NOT_SUPPORTED -> "EFI_UNSUPPORTED"
    [] SbiError = SBI_ERR_INVALID_PARAM -> "EFI_INVALID_PARAMETER"
    [] SbiError = SBI_ERR_DENIED -> "EFI_ACCESS_DENIED"
    [] SbiError = SBI_ERR_INVALID_ADDRESS -> "EFI_LOAD_ERROR"
    [] SbiError = SBI_ERR_ALREADY_AVAILABLE -> "EFI_ALREADY_STARTED"
    [] OTHER -> "EFI_UNSUPPORTED"

\* The switch of TranslateError reaches its default label: ASSERT (FALSE).
TranslateErrorDefault(SbiError) ==
  SbiError \notin { SBI_SUCCESS, SBI_ERR_FAILED, SBI_ERR_NOT_SUPPORTED,
                    SBI_ERR_INVALID_PARAM, SBI_ERR_DENIED,
                    SBI_ERR_INVALID_ADDRESS, SBI_ERR_ALREADY_AVAILABLE }

\* ASSERT (Expression) stops the hart here: the expression is false and the
\* build has assertions that break or dead-loop.
AssertStops(Expression) == (~Expression) /\ AssertHalts

\* --------------------------------------------------------------- the ecall
NoRegs == [a |-> << 0, 0, 0, 0, 0, 0 >>, a6 |-> 0, a7 |-> 0]
NoRet == [error |-> 0, value |-> 0]
NoCall == [op |-> "none", params |-> << >>, out0 |-> 0]
NoEffect ==
  [kind |-> "none", named |-> { }, targets |-> { }, full |-> FALSE, id |-> 0]

\* One thread of control per hart: a hart calls a wrapper when it runs (the
\* runtime has it STARTED) and is not inside a wrapper.
Ready(h) == pc[h] = "idle" /\ hart_status[h] = STARTED

\* The caller's call: the wrapper is entered with its parameters; out0 is the
\* content of the caller's output variable at entry.
Enter(h, op, params) ==
  /\ Ready(h)
  /\ cur' = [cur EXCEPT ![h] = [op |-> op, params |-> params, out0 |-> out[h]]]
  /\ UNCHANGED << rtret, sbiret, out, hart_status, effect >>

\* The wrapper has returned and the caller goes on: the wrapper's frame (its
\* parameters, its struct sbiret, its return value) is gone, and so is what
\* the runtime's answer was about.  The caller hands a variable that holds 0
\* to the OUT pointer of its next call.
WrapperExit(h) ==
  /\ pc[h] = "done"
  /\ pc' = [pc EXCEPT ![h] = "idle"]
  /\ cur' = [cur EXCEPT ![h] = NoCall]
  /\ regs' = [regs EXCEPT ![h] = NoRegs]
  /\ rtret' = [rtret EXCEPT ![h] = NoRet]
  /\ sbiret' = [sbiret EXCEPT ![h] = NoRet]
  /\ ntraps' = [ntraps EXCEPT ![h] = 0]
  /\ ret' = [ret EXCEPT ![h] = "NONE"]
  /\ effect' = [effect EXCEPT ![h] = NoEffect]
  /\ out' = [out EXCEPT ![h] = 0]
  /\ UNCHANGED << envvars, firmware_context, hart_status >>

\* SbiCall up to and including the ecall instruction: the eight registers are
\* loaded and the hart traps into the runtime.
SbiCall(h, ext_id, func_id, arg0, arg1, arg2, arg3, arg4, arg5) ==
  /\ regs' = [regs EXCEPT ![h] =
                [a |-> << arg0, arg1, arg2, arg3, arg4, arg5 >>,
                 a6 |-> func_id, a7 |-> ext_id]]
  /\ ntraps' = [ntraps EXCEPT ![h] = ntraps[h] + 1]
  /\ pc' = [pc EXCEPT ![h] = "ecall"]
  /\ ret' = [ret EXCEPT ![h] = "NONE"]

SbiCall0(h, ext_id, func_id) ==
  SbiCall(h, ext_id, func_id, 0, 0, 0, 0, 0, 0)
SbiCall1(h, ext_id, func_id, arg0) ==
  SbiCall(h, ext_id, func_id, arg0, 0, 0, 0, 0, 0)
SbiCall2(h, ext_id, func_id, arg0, arg1) ==
  SbiCall(h, ext_id, func_id, arg0, arg1, 0, 0, 0, 0)
SbiCall3(h, ext_id, func_id, arg0, arg1, arg2) ==
  SbiCall(h, ext_id, func_id, arg0, arg1, arg2, 0, 0, 0)
SbiCall4(h, ext_id, func_id, arg0, arg1, arg2, arg3) ==
  SbiCall(h, ext_id, func_id, arg0, arg1, arg2, arg3, 0, 0)
SbiCall5(h, ext_id, func_id, arg0, arg1, arg2, arg3, arg4) ==
  SbiCall(h, ext_id, func_id, arg0, arg1, arg2, arg3, arg4, 0)
SbiCall6(h, ext_id, func_id, arg0, arg1, arg2, arg3, arg4, arg5) ==
  SbiCall(h, ext_id, func_id, arg0, arg1, arg2, arg3, arg4, arg5)

\* SbiCall after the ecall: struct sbiret ret = { a0, a1 }.  a0 is an output
\* operand of the asm statement ("+r"), a1 is an input operand only, so the
\* compiler may take a1 to hold arg1 still: the value member is either what
\* the runtime left in a1 or arg1, as the build chooses.
SbiCallResults(rt, arg1) ==
  { [error |-> rt.error, value |-> v] : v \in { rt.value, arg1 } }

\* ------------------------------------------------- inputs of the wrappers
\* Hart ids a caller passes: the harts of the platform and one unknown id.
HartIds == 0 .. NumHarts
\* Extension ids a caller probes.
ProbeIds == { 0, SBI_EXT_BASE, SBI_EXT_TIME, SBI_EXT_VENDOR_START }
\* The word -1 (all bits set): HartMaskBase "all harts", Size "2^XLEN-1".
AllOnes == -1
\* HartMask is a pointer: the address of the caller's mask variable.
HartMaskAddr(h) == 32 + h
HartMaskBits == { 0, 6 }
HartMaskBases == { 0, AllOnes }
StartAddrs == { 0, 1 }
Sizes == { 0, AllOnes }
Ids == { 1 }
\* SbiVendorCall: extension ids around both ends of the vendor range, and the
\* variadic arguments base+1, base+2, ... (all different, none zero).
VendorExtIds == { SBI_EXT_VENDOR_START - 1, SBI_EXT_VENDOR_START,
                  SBI_EXT_VENDOR_END, SBI_EXT_VENDOR_END + 1 }
\* SbiSetFirmwareContext: the null pointer and addresses of firmware context
\* structures (words of two bytes, both non-zero).
ContextPtrs == { 257 * c : c \in Values }
FunctionIds == { 1 }
ArgBases == { 10 }
VarArgs(n, base) == [i \in 1 .. n |-> base + i]

\* ------------------------------------- wrappers, up to the ecall: Base
SbiGetSpecVersion(h) ==
  /\ Enter(h, "SbiGetSpecVersion", << >>)
  /\ SbiCall0(h, SBI_EXT_BASE, SBI_EXT_BASE_GET_SPEC_VERSION)
  /\ UNCHANGED << envvars, firmware_context >>

SbiGetImplId(h) ==
  /\ Enter(h, "SbiGetImplId", << >>)
  /\ SbiCall0(h, SBI_EXT_BASE, SBI_EXT_BASE_GET_IMP_ID)
  /\ UNCHANGED << envvars, firmware_context >>

SbiGetImplVersion(h) ==
  /\ Enter(h, "SbiGetImplVersion", << >>)
  /\ SbiCall0(h, SBI_EXT_BASE, SBI_EXT_BASE_GET_IMP_VERSION)
  /\ UNCHANGED << envvars, firmware_context >>

\* ExtensionId is a parameter that the body does not use: the call is SbiCall0.
SbiProbeExtension(h, ExtensionId) ==
  /\ Enter(h, "SbiProbeExtension", << ExtensionId >>)
  /\ SbiCall0(h, SBI_EXT_BASE, SBI_EXT_BASE_PROBE_EXT)
  /\ UNCHANGED << envvars, firmware_context >>

SbiGetMvendorId(h) ==
  /\ Enter(h, "SbiGetMvendorId", << >>)
  /\ SbiCall0(h, SBI_EXT_BASE, SBI_EXT_BASE_GET_MVENDORID)
  /\ UNCHANGED << envvars, firmware_context >>

SbiGetMarchId(h) ==
  /\ Enter(h, "SbiGetMarchId", << >>)
  /\ SbiCall0(h, SBI_EXT_BASE, SBI_EXT_BASE_GET_MARCHID)
  /\ UNCHANGED << envvars, firmware_context >>

SbiGetMimpId(h) ==
  /\ Enter(h, "SbiGetMimpId", << >>)
  /\ SbiCall0(h, SBI_EXT_BASE, SBI_EXT_BASE_GET_MIMPID)
  /\ UNCHANGED << envvars, firmware_context >>

\* ------------------------------ hart state management, timer, IPI
\* SbiHartStart with StartAddr and HartId in each other's place.
SbiHartStart_mut(h, HartId, StartAddr, Priv) ==
  /\ Enter(h, "SbiHartStart", << HartId, StartAddr, Priv >>)
  /\ SbiCall3(h, SBI_EXT_HSM, SBI_EXT_HSM_HART_START, StartAddr, HartId, Priv)
  /\ UNCHANGED << envvars, firmware_context >>

SbiHartStart(h, HartId, StartAddr, Priv) ==
  /\ Enter(h, "SbiHartStart", << HartId, StartAddr, Priv >>)
  /\ SbiCall3(h, SBI_EXT_HSM, SBI_EXT_HSM_HART_START, HartId, StartAddr, Priv)
  /\ UNCHANGED << envvars, firmware_context >>

SbiHartStop(h) ==
  /\ Enter(h, "SbiHartStop", << >>)
  /\ SbiCall0(h, SBI_EXT_HSM, SBI_EXT_HSM_HART_STOP)
  /\ UNCHANGED << envvars, firmware_context >>

\* SbiHartGetStatus with the function id of SbiHartStop.
SbiHartGetStatus_mut(h, HartId) ==
  /\ Enter(h, "SbiHartGetStatus", << HartId >>)
  /\ SbiCall1(h, SBI_EXT_HSM, SBI_EXT_HSM_HART_STOP, HartId)
  /\ UNCHANGED << envvars, firmware_context >>

SbiHartGetStatus(h, HartId) ==
  /\ Enter(h, "SbiHartGetStatus", << HartId >>)
  /\ SbiCall1(h, SBI_EXT_HSM, SBI_EXT_HSM_HART_GET_STATUS, HartId)
  /\ UNCHANGED << envvars, firmware_context >>

SbiSetTimer(h, StimeValue) ==
  /\ Enter(h, "SbiSetTimer", << StimeValue >>)
  /\ SbiCall1(h, SBI_EXT_TIME, SBI_EXT_TIME_SET_TIMER, StimeValue)
  /\ UNCHANGED << envvars, firmware_context >>

\* SbiSendIpi without HartMaskBase.
SbiSendIpi_mut(h, HartMask, Bits, HartMaskBase) ==
  /\ Enter(h, "SbiSendIpi", << HartMask, Bits, HartMaskBase >>)
  /\ SbiCall1(h, SBI_EXT_IPI, SBI_EXT_IPI_SEND_IPI, HartMask)
  /\ UNCHANGED << envvars, firmware_context >>

\* The masked wrappers pass (UINTN) HartMask, the pointer, in a0; Bits is the
\* word the pointer points at.
SbiSendIpi(h, HartMask, Bits, HartMaskBase) ==
  /\ Enter(h, "SbiSendIpi", << HartMask, Bits, HartMaskBase >>)
  /\ SbiCall2(h, SBI_EXT_IPI, SBI_EXT_IPI_SEND_IPI, HartMask, HartMaskBase)
  /\ UNCHANGED << envvars, firmware_context >>

\* ------------------------------------------------------------ remote fence
SbiRemoteFenceI(h, HartMask, Bits, HartMaskBase) ==
  /\ Enter(h, "SbiRemoteFenceI", << HartMask, Bits, HartMaskBase >>)
  /\ SbiCall2(h, SBI_EXT_RFENCE, SBI_EXT_RFENCE_REMOTE_FENCE_I,
              HartMask, HartMaskBase)
  /\ UNCHANGED << envvars, firmware_context >>

\* SbiRemoteSfenceVma with the function id of SbiRemoteFenceI.
SbiRemoteSfenceVma_mut(h, HartMask, Bits, HartMaskBase, StartAddr, Size) ==
  /\ Enter(h, "SbiRemoteSfenceVma",
           << HartMask, Bits, HartMaskBase, StartAddr, Size >>)
  /\ SbiCall4(h, SBI_EXT_RFENCE, SBI_EXT_RFENCE_REMOTE_FENCE_I,
              HartMask, HartMaskBase, StartAddr, Size)
  /\ UNCHANGED << envvars, firmware_context >>

SbiRemoteSfenceVma(h, HartMask, Bits, HartMaskBase, StartAddr, Size) ==
  /\ Enter(h, "SbiRemoteSfenceVma",
           << HartMask, Bits, HartMaskBase, StartAddr, Size >>)
  /\ SbiCall4(h, SBI_EXT_RFENCE, SBI_EXT_RFENCE_REMOTE_SFENCE_VMA,
              HartMask, HartMaskBase, StartAddr, Size)
  /\ UNCHANGED << envvars, firmware_context >>

SbiRemoteSfenceVmaAsid(h, HartMask, Bits, HartMaskBase, StartAddr, Size, Asid) ==
  /\ Enter(h, "SbiRemoteSfenceVmaAsid",
           << HartMask, Bits, HartMaskBase, StartAddr, Size, Asid >>)
  /\ SbiCall5(h, SBI_EXT_RFENCE, SBI_EXT_RFENCE_REMOTE_SFENCE_VMA_ASID,
              HartMask, HartMaskBase, StartAddr, Size, Asid)
  /\ UNCHANGED << envvars, firmware_context >>

SbiRemoteHFenceGvmaVmid(h, HartMask, Bits, HartMaskBase, StartAddr, Size, Vmid) ==
  /\ Enter(h, "SbiRemoteHFenceGvmaVmid",
           << HartMask, Bits, HartMaskBase, StartAddr, Size, Vmid >>)
  /\ SbiCall5(h, SBI_EXT_RFENCE, SBI_EXT_RFENCE_REMOTE_HFENCE_GVMA,
              HartMask, HartMaskBase, StartAddr, Size, Vmid)
  /\ UNCHANGED << envvars, firmware_context >>

SbiRemoteHFenceGvma(h, HartMask, Bits, HartMaskBase, StartAddr, Size) ==
  /\ Enter(h, "SbiRemoteHFenceGvma",
           << HartMask, Bits, HartMaskBase, StartAddr, Size >>)
  /\ SbiCall4(h, SBI_EXT_RFENCE, SBI_EXT_RFENCE_REMOTE_HFENCE_GVMA_VMID,
              HartMask, HartMaskBase, StartAddr, Size)
  /\ UNCHANGED << envvars, firmware_context >>

SbiRemoteHFenceVvmaAsid(h, HartMask, Bits, HartMaskBase, StartAddr, Size, Asid) ==
  /\ Enter(h, "SbiRemoteHFenceVvmaAsid",
           << HartMask, Bits, HartMaskBase, StartAddr, Size, Asid >>)
  /\ SbiCall5(h, SBI_EXT_RFENCE, SBI_EXT_RFENCE_REMOTE_HFENCE_VVMA,
              HartMask, HartMaskBase, StartAddr, Size, Asid)
  /\ UNCHANGED << envvars, firmware_context >>

SbiRemoteHFenceVvma(h, HartMask, Bits, HartMaskBase, StartAddr, Size) ==
  /\ Enter(h, "SbiRemoteHFenceVvma",
           << HartMask, Bits, HartMaskBase, StartAddr, Size >>)
  /\ SbiCall4(h, SBI_EXT_RFENCE, SBI_EXT_RFENCE_REMOTE_HFENCE_VVMA_ASID,
              HartMask, HartMaskBase, StartAddr, Size)
  /\ UNCHANGED << envvars, firmware_context >>

\* ------------------------------------------------------------ vendor call
\* The condition of the ASSERT in SbiVendorCall.
VendorExtInRange(ExtensionId) ==
  ExtensionId >= SBI_EXT_VENDOR_START /\ ExtensionId <= SBI_EXT_VENDOR_END

\* A wrapper returns Status without an ecall.
ReturnNoTrap(h, Status) ==
  /\ regs' = [regs EXCEPT ![h] = NoRegs]
  /\ ntraps' = [ntraps EXCEPT ![h] = 0]
  /\ pc' = [pc EXCEPT ![h] = "done"]
  /\ ret' = [ret EXCEPT ![h] = Status]

\* A failed ASSERT stops the hart before any ecall of the invocation.
HaltNoTrap(h) ==
  /\ regs' = [regs EXCEPT ![h] = NoRegs]
  /\ ntraps' = [ntraps EXCEPT ![h] = 0]
  /\ pc' = [pc EXCEPT ![h] = "halted"]
  /\ ret' = [ret EXCEPT ![h] = "NONE"]

\* The orders in which a build may evaluate the VA_ARG(Args, UINTN) operands
\* of one SbiCallN(...): the order of evaluation of the arguments of a call is
\* not specified, and each VA_ARG advances Args.  A[i] is the variadic
\* argument that the i-th operand (left to right) receives.
VaArgOrders(Args) ==
  { Args, [i \in 1 .. Len(Args) |-> Args[Len(Args) + 1 - i]] }

\* The switch with a default label that passes the first six arguments on.
SbiVendorCallSwitch_mut(h, ExtensionId, FunctionId, NumArgs, A) ==
  CASE NumArgs = 0 -> SbiCall0(h, ExtensionId, FunctionId)
    [] NumArgs = 1 -> SbiCall1(h, ExtensionId, FunctionId, A[1])
    [] NumArgs = 2 -> SbiCall2(h, ExtensionId, FunctionId, A[1], A[2])
    [] NumArgs = 3 -> SbiCall3(h, ExtensionId, FunctionId, A[1], A[2], A[3])
    [] NumArgs = 4 -> SbiCall4(h, ExtensionId, FunctionId, A[1], A[2], A[3], A[4])
    [] NumArgs = 5 ->
         SbiCall5(h, ExtensionId, FunctionId, A[1], A[2], A[3], A[4], A[5])
    [] OTHER ->
         SbiCall6(h, ExtensionId, FunctionId, A[1], A[2], A[3], A[4], A[5], A[6])

\* switch (NumArgs) of SbiVendorCall.
SbiVendorCallSwitch(h, ExtensionId, FunctionId, NumArgs, A) ==
  CASE NumArgs = 0 -> SbiCall0(h, ExtensionId, FunctionId)
    [] NumArgs = 1 -> SbiCall1(h, ExtensionId, FunctionId, A[1])
    [] NumArgs = 2 -> SbiCall2(h, ExtensionId, FunctionId, A[1], A[2])
    [] NumArgs = 3 -> SbiCall3(h, ExtensionId, FunctionId, A[1], A[2], A[3])
    [] NumArgs = 4 -> SbiCall4(h, ExtensionId, FunctionId, A[1], A[2], A[3], A[4])
    [] NumArgs = 5 ->
         SbiCall5(h, ExtensionId, FunctionId, A[1], A[2], A[3], A[4], A[5])
    [] NumArgs = 6 ->
         SbiCall6(h, ExtensionId, FunctionId, A[1], A[2], A[3], A[4], A[5], A[6])
    [] OTHER -> ReturnNoTrap(h, "EFI_INVALID_PARAMETER")

\* Args are the variadic arguments the caller passed, NumArgs of them.
SbiVendorCall(h, ExtensionId, FunctionId, NumArgs, Args) ==
  /\ Enter(h, "SbiVendorCall", << ExtensionId, FunctionId, NumArgs >> \o Args)
  /\ IF AssertStops(VendorExtInRange(ExtensionId))
       THEN HaltNoTrap(h)
       ELSE \E A \in VaArgOrders(Args) :
              SbiVendorCallSwitch(h, ExtensionId, FunctionId, NumArgs, A)
  /\ UNCHANGED << envvars, firmware_context >>

\* ----------------------------------------- firmware extension, up to ecall
SbiGetMscratch(h) ==
  /\ Enter(h, "SbiGetMscratch", << >>)
  /\ SbiCall0(h, SBI_EDK2_FW_EXT, SBI_EXT_FW_MSCRATCH_FUNC)
  /\ UNCHANGED << envvars, firmware_context >>

SbiGetMscratchHartid(h, HartId) ==
  /\ Enter(h, "SbiGetMscratchHartid", << HartId >>)
  /\ SbiCall1(h, SBI_EDK2_FW_EXT, SBI_EXT_FW_MSCRATCH_HARTID_FUNC, HartId)
  /\ UNCHANGED << envvars, firmware_context >>

SbiGetFirmwareContext(h) ==
  /\ Enter(h, "SbiGetFirmwareContext", << >>)
  /\ SbiCall0(h, SBI_EDK2_FW_EXT, SBI_EXT_FW_MSCRATCH_FUNC)
  /\ UNCHANGED << envvars, firmware_context >>

SbiSetFirmwareContext(h, FirmwareContext) ==
  /\ Enter(h, "SbiSetFirmwareContext", << FirmwareContext >>)
  /\ SbiCall0(h, SBI_EDK2_FW_EXT, SBI_EXT_FW_MSCRATCH_FUNC)
  /\ UNCHANGED << envvars, firmware_context >>

\* ------------------------------------------------------- the SBI runtime
\* The runtime is outside the library; it is modelled by what the SBI
\* interface lets it answer.  Every call may fail with any failure code and
\* any value; a successful call answers as the function called defines.
ScratchAddr(h) == 16 + h
Scratches == { ScratchAddr(h) : h \in Harts }
HartOfScratch(p) == p - 16
Platforms == Harts

\* sbi_probe_extension: 0 for an extension the runtime does not implement.
RuntimeProbe(ExtensionId) == IF ExtensionId \in supported THEN 1 ELSE 0

\* The set bits of a word (the words the model passes have eight bits at
\* most; the word -1 has all of them).
BitsOf(w) == { i \in 0 .. 7 : (w \div (2 ^ i)) % 2 = 1 }

\* The harts a masked call names: every hart of the platform when the base is
\* -1, else the hart base + i for every set bit i of the mask.
MaskTargets(hart_mask, hart_mask_base) ==
  IF hart_mask_base = AllOnes THEN Harts
  ELSE { hart_mask_base + i : i \in BitsOf(hart_mask) }

\* What the function selected by a7 and a6 does to the harts it names.
RuntimeKind(r) ==
  CASE r.a7 = SBI_EXT_IPI /\ r.a6 = SBI_EXT_IPI_SEND_IPI -> "ipi"
    [] r.a7 = SBI_EXT_RFENCE /\ r.a6 = SBI_EXT_RFENCE_REMOTE_FENCE_I -> "fence_i"
    [] r.a7 = SBI_EXT_RFENCE /\ r.a6 = SBI_EXT_RFENCE_REMOTE_SFENCE_VMA ->
         "sfence_vma"
    [] r.a7 = SBI_EXT_RFENCE /\ r.a6 = SBI_EXT_RFENCE_REMOTE_SFENCE_VMA_ASID ->
         "sfence_vma_asid"
    [] r.a7 = SBI_EXT_RFENCE /\ r.a6 = SBI_EXT_RFENCE_REMOTE_HFENCE_GVMA ->
         "hfence_gvma"
    [] r.a7 = SBI_EXT_RFENCE /\ r.a6 = SBI_EXT_RFENCE_REMOTE_HFENCE_GVMA_VMID ->
         "hfence_gvma_vmid"
    [] r.a7 = SBI_EXT_RFENCE /\ r.a6 = SBI_EXT_RFENCE_REMOTE_HFENCE_VVMA ->
         "hfence_vvma"
    [] r.a7 = SBI_EXT_RFENCE /\ r.a6 = SBI_EXT_RFENCE_REMOTE_HFENCE_VVMA_ASID ->
         "hfence_vvma_asid"
    [] OTHER -> "none"

RangedKinds ==
  { "sfence_vma", "sfence_vma_asid", "hfence_gvma", "hfence_gvma_vmid",
    "hfence_vvma", "hfence_vvma_asid" }
WithIdKinds == { "sfence_vma_asid", "hfence_gvma_vmid", "hfence_vvma_asid" }

\* A fence over (start, size) flushes everything: both are 0, or size is
\* 2^XLEN - 1.
RuntimeFullFlush(start, size) == (start = 0 /\ size = 0) \/ size = AllOnes

\* The error the interface defines for the call in the registers of hart h in
\* the present state of the runtime; 0 when it defines none.
RuntimeDefinedError(h) ==
  LET r == regs[h] IN
  CASE r.a7 = SBI_EXT_HSM /\ r.a6 = SBI_EXT_HSM_HART_START ->
         IF r.a[1] \notin Harts THEN SBI_ERR_INVALID_PARAM
         ELSE IF hart_status[r.a[1]] = STARTED THEN SBI_ERR_ALREADY_AVAILABLE
         ELSE SBI_SUCCESS
    [] r.a7 = SBI_EXT_HSM /\ r.a6 = SBI_EXT_HSM_HART_GET_STATUS ->
         IF r.a[1] \notin Harts THEN SBI_ERR_INVALID_PARAM ELSE SBI_SUCCESS
    [] RuntimeKind(r) # "none" ->
         IF MaskTargets(r.a[1], r.a[2]) \subseteq Harts
           THEN SBI_SUCCESS ELSE SBI_ERR_INVALID_PARAM
    [] OTHER -> SBI_SUCCESS

\* The values a successful call leaves in a1.  A successful hart stop does
\* not return, and a hart is started from STOPPED only.
RuntimeSuccessValues(h) ==
  LET r == regs[h] IN
  CASE r.a7 = SBI_EXT_BASE /\ r.a6 = SBI_EXT_BASE_PROBE_EXT ->
         { RuntimeProbe(r.a[1]) }
    [] r.a7 = SBI_EDK2_FW_EXT /\ r.a6 = SBI_EXT_FW_MSCRATCH_FUNC ->
         { ScratchAddr(h) }
    [] r.a7 = SBI_EDK2_FW_EXT /\ r.a6 = SBI_EXT_FW_MSCRATCH_HARTID_FUNC ->
         IF r.a[1] \in Harts THEN { ScratchAddr(r.a[1]) } ELSE { }
    [] r.a7 = SBI_EXT_HSM /\ r.a6 = SBI_EXT_HSM_HART_START ->
         IF hart_status[r.a[1]] = STOPPED THEN { 0 } ELSE { }
    [] r.a7 = SBI_EXT_HSM /\ r.a6 = SBI_EXT_HSM_HART_STOP -> { }
    [] r.a7 = SBI_EXT_HSM /\ r.a6 = SBI_EXT_HSM_HART_GET_STATUS ->
         { hart_status[r.a[1]] }
    [] OTHER -> Values

\* What the runtime may leave in a0, a1: the error the interface defines for
\* the call, or else success, or failure with any code for a reason of the
\* runtime's own.
RuntimeReturns(h) ==
  IF RuntimeDefinedError(h) # SBI_SUCCESS
    THEN { [error |-> RuntimeDefinedError(h), value |-> v] : v \in Values }
    ELSE { [error |-> e, value |-> v] : e \in FailureCodes, v \in Values }
         \cup { [error |-> SBI_SUCCESS, value |-> v] :
                  v \in RuntimeSuccessValues(h) }

\* The status of the harts after the runtime has answered rt to hart h: a
\* successful hart start leaves the hart named in a0 in START_REQUEST_PENDING.
RuntimeHartStatus(h, rt) ==
  LET r == regs[h] IN
  IF r.a7 = SBI_EXT_HSM /\ r.a6 = SBI_EXT_HSM_HART_START /\ rt.error = SBI_SUCCESS
    THEN [hart_status EXCEPT ![r.a[1]] = START_REQUEST_PENDING]
    ELSE hart_status

\* What the runtime has done to the harts when it answers rt to hart h.  A
\* signal or fence names the harts of its mask; when it succeeds it reaches
\* every one of them, when it fails it reaches none.
RuntimeEffect(h, rt) ==
  LET r == regs[h]
      kind == RuntimeKind(r)
      ok == rt.error = SBI_SUCCESS
  IN IF kind # "none"
       THEN [kind |-> kind,
             named |-> MaskTargets(r.a[1], r.a[2]),
             targets |-> IF ok THEN MaskTargets(r.a[1], r.a[2]) ELSE { },
             full |-> ok /\ kind \in RangedKinds
                         /\ RuntimeFullFlush(r.a[3], r.a[4]),
             id |-> IF ok /\ kind \in WithIdKinds THEN r.a[5] ELSE 0]
       ELSE NoEffect

\* ------------------------------------ wrappers, from the ecall's return
\* Each XxxRet gives, for the struct sbiret that SbiCall returned and the
\* content o of the caller's output variable, the new content of the output
\* variable and how the wrapper returns: "translate" (return
\* TranslateError(ret.error)), "success" (return EFI_SUCCESS), "void".
SbiGetSpecVersionRet(sr, o) ==
  [out |-> IF sr.error = 0 THEN sr.value ELSE o, kind |-> "void"]
SbiGetImplIdRet(sr, o) == [out |-> sr.value, kind |-> "void"]
SbiGetImplVersionRet(sr, o) == [out |-> sr.value, kind |-> "void"]
SbiProbeExtensionRet(sr, o) == [out |-> sr.value, kind |-> "void"]
SbiGetMvendorIdRet(sr, o) == [out |-> sr.value, kind |-> "void"]
SbiGetMarchIdRet(sr, o) == [out |-> sr.value, kind |-> "void"]
SbiGetMimpIdRet(sr, o) == [out |-> sr.value, kind |-> "void"]
\* SbiHartStart that ends in return EFI_SUCCESS.
SbiHartStartRet_mut(sr, o) == [out |-> o, kind |-> "success"]
SbiHartStartRet(sr, o) == [out |-> o, kind |-> "translate"]
\* SbiHartStop that ends in return EFI_SUCCESS.
SbiHartStopRet_mut(sr, o) == [out |-> o, kind |-> "success"]
SbiHartStopRet(sr, o) == [out |-> o, kind |-> "translate"]
SbiHartGetStatusRet(sr, o) ==
  [out |-> IF sr.error = 0 THEN sr.value ELSE o, kind |-> "translate"]
SbiSetTimerRet(sr, o) == [out |-> o, kind |-> "void"]
SbiSendIpiRet(sr, o) == [out |-> o, kind |-> "translate"]
\* A remote fence that ends in return EFI_SUCCESS.
SbiRemoteFenceRet_mut(sr, o) == [out |-> o, kind |-> "success"]
SbiRemoteFenceRet(sr, o) == [out |-> o, kind |-> "translate"]
SbiVendorCallRet(sr, o) == [out |-> o, kind |-> "translate"]
SbiGetMscratchRet(sr, o) ==
  [out |-> IF sr.error = 0 THEN sr.value ELSE o, kind |-> "success"]
SbiGetMscratchHartidRet(sr, o) ==
  [out |-> IF sr.error = 0 THEN sr.value ELSE o, kind |-> "success"]

RemoteFenceOps ==
  { "SbiRemoteFenceI", "SbiRemoteSfenceVma", "SbiRemoteSfenceVmaAsid",
    "SbiRemoteHFenceGvmaVmid", "SbiRemoteHFenceGvma",
    "SbiRemoteHFenceVvmaAsid", "SbiRemoteHFenceVvma" }
ContextOps == { "SbiGetFirmwareContext", "SbiSetFirmwareContext" }

WrapperRet(op, sr, o) ==
  CASE op = "SbiGetSpecVersion" -> SbiGetSpecVersionRet(sr, o)
    [] op = "SbiGetImplId" -> SbiGetImplIdRet(sr, o)
    [] op = "SbiGetImplVersion" -> SbiGetImplVersionRet(sr, o)
    [] op = "SbiProbeExtension" -> SbiProbeExtensionRet(sr, o)
    [] op = "SbiGetMvendorId" -> SbiGetMvendorIdRet(sr, o)
    [] op = "SbiGetMarchId" -> SbiGetMarchIdRet(sr, o)
    [] op = "SbiGetMimpId" -> SbiGetMimpIdRet(sr, o)
    [] op = "SbiHartStart" -> SbiHartStartRet(sr, o)
    [] op = "SbiHartStop" -> SbiHartStopRet(sr, o)
    [] op = "SbiHartGetStatus" -> SbiHartGetStatusRet(sr, o)
    [] op = "SbiSetTimer" -> SbiSetTimerRet(sr, o)
    [] op = "SbiSendIpi" -> SbiSendIpiRet(sr, o)
    [] op \in RemoteFenceOps -> SbiRemoteFenceRet(sr, o)
    [] op = "SbiVendorCall" -> SbiVendorCallRet(sr, o)
    [] op = "SbiGetMscratch" -> SbiGetMscratchRet(sr, o)
    [] op = "SbiGetMscratchHartid" -> SbiGetMscratchHartidRet(sr, o)

\* The return statement with return TranslateError(ret.error) where the code
\* has return EFI_SUCCESS.
ReturnStatement_mut(h, kind, e) ==
  IF kind \in { "translate", "success" } /\ AssertStops(~TranslateErrorDefault(e))
    THEN /\ pc' = [pc EXCEPT ![h] = "halted"]
         /\ ret' = [ret EXCEPT ![h] = "NONE"]
    ELSE /\ pc' = [pc EXCEPT ![h] = "done"]
         /\ ret' = [ret EXCEPT ![h] =
                      CASE kind \in { "translate", "success" } -> TranslateError(e)
                        [] kind = "void" -> "VOID"]

\* The return statement of a wrapper.  return TranslateError(e) does not
\* return when the ASSERT (FALSE) of the default label stops the hart.
ReturnStatement(h, kind, e) ==
  IF kind = "translate" /\ AssertStops(~TranslateErrorDefault(e))
    THEN /\ pc' = [pc EXCEPT ![h] = "halted"]
         /\ ret' = [ret EXCEPT ![h] = "NONE"]
    ELSE /\ pc' = [pc EXCEPT ![h] = "done"]
         /\ ret' = [ret EXCEPT ![h] =
                      CASE kind = "translate" -> TranslateError(e)
                        [] kind = "success" -> "EFI_SUCCESS"
                        [] kind = "void" -> "VOID"]

\* A wrapper that issues its ecall once more when the first one failed.
EcallReturn_mut(h) ==
  /\ pc[h] = "ecall"
  /\ cur[h].op \notin ContextOps
  /\ \E rt \in RuntimeReturns(h) :
       \E sr \in SbiCallResults(rt, regs[h].a[2]) :
         LET r == WrapperRet(cur[h].op, sr, out[h]) IN
           /\ rtret' = [rtret EXCEPT ![h] = rt]
           /\ sbiret' = [sbiret EXCEPT ![h] = sr]
           /\ hart_status' = RuntimeHartStatus(h, rt)
           /\ effect' = [effect EXCEPT ![h] = RuntimeEffect(h, rt)]
           /\ IF sr.error # 0 /\ ntraps[h] < 2
                THEN /\ ntraps' = [ntraps EXCEPT ![h] = ntraps[h] + 1]
                     /\ UNCHANGED << pc, ret, out >>
                ELSE /\ out' = [out EXCEPT ![h] = r.out]
                     /\ ReturnStatement(h, r.kind, sr.error)
                     /\ UNCHANGED ntraps
  /\ UNCHANGED << envvars, firmware_context, cur, regs >>

\* The runtime returns from the ecall of hart h and the wrapper runs to its
\* return statement (every wrapper but the two firmware-context accessors).
EcallReturn(h) ==
  /\ pc[h] = "ecall"
  /\ cur[h].op \notin ContextOps
  /\ \E rt \in RuntimeReturns(h) :
       \E sr \in SbiCallResults(rt, regs[h].a[2]) :
         LET r == WrapperRet(cur[h].op, sr, out[h]) IN
           /\ rtret' = [rtret EXCEPT ![h] = rt]
           /\ sbiret' = [sbiret EXCEPT ![h] = sr]
           /\ out' = [out EXCEPT ![h] = r.out]
           /\ ReturnStatement(h, r.kind, sr.error)
           /\ hart_status' = RuntimeHartStatus(h, rt)
           /\ effect' = [effect EXCEPT ![h] = RuntimeEffect(h, rt)]
  /\ UNCHANGED << envvars, firmware_context, cur, regs, ntraps >>

\* The runtime accepts the hart stop of hart h: the ecall does not return and
\* the hart leaves STARTED.
SbiHartStopNoReturn(h) ==
  /\ pc[h] = "ecall"
  /\ cur[h].op = "SbiHartStop"
  /\ regs[h].a7 = SBI_EXT_HSM /\ regs[h].a6 = SBI_EXT_HSM_HART_STOP
  /\ pc' = [pc EXCEPT ![h] = "stopped"]
  /\ hart_status' = [hart_status EXCEPT ![h] = STOP_REQUEST_PENDING]
  /\ UNCHANGED << envvars, firmware_context, cur, regs, rtret, sbiret, ntraps,
                  out, ret, effect >>

\* Out of band, a hart whose start or stop is pending completes it.  A hart
\* that starts begins at its start address, outside every wrapper: the frame
\* of the SbiHartStop that stopped it is gone.
HartTransition(t) ==
  /\ hart_status[t] \in { START_REQUEST_PENDING, STOP_REQUEST_PENDING }
  /\ IF hart_status[t] = START_REQUEST_PENDING
       THEN /\ hart_status' = [hart_status EXCEPT ![t] = STARTED]
            /\ pc' = [pc EXCEPT ![t] = "idle"]
            /\ cur' = [cur EXCEPT ![t] = NoCall]
            /\ regs' = [regs EXCEPT ![t] = NoRegs]
            /\ rtret' = [rtret EXCEPT ![t] = NoRet]
            /\ sbiret' = [sbiret EXCEPT ![t] = NoRet]
            /\ ntraps' = [ntraps EXCEPT ![t] = 0]
            /\ out' = [out EXCEPT ![t] = 0]
            /\ ret' = [ret EXCEPT ![t] = "NONE"]
            /\ effect' = [effect EXCEPT ![t] = NoEffect]
       ELSE /\ hart_status' = [hart_status EXCEPT ![t] = STOPPED]
            /\ UNCHANGED << pc, cur, regs, rtret, sbiret, ntraps, out, ret,
                            effect >>
  /\ UNCHANGED << envvars, firmware_context >>

\* sbi_platform_ptr(ScratchSpace)->firmware_context for a ScratchSpace that
\* is the scratch space of a hart.
PlatformOf(ScratchSpace) == platform_addr[HartOfScratch(ScratchSpace)]

\* SbiGetFirmwareContext from the ecall's return.  A ScratchSpace that is no
\* scratch space (the build read arg1 = 0 as ret.value) is dereferenced all
\* the same: the read faults (the hart stops) or yields any word.
SbiGetFirmwareContextRet(h) ==
  /\ pc[h] = "ecall"
  /\ cur[h].op = "SbiGetFirmwareContext"
  /\ \E rt \in RuntimeReturns(h) :
       \E sr \in SbiCallResults(rt, regs[h].a[2]) :
         /\ rtret' = [rtret EXCEPT ![h] = rt]
         /\ sbiret' = [sbiret EXCEPT ![h] = sr]
         /\ IF sr.error # 0
              THEN /\ out' = out
                   /\ ReturnStatement(h, "success", sr.error)
              ELSE IF sr.value \in Scratches
                THEN /\ out' = [out EXCEPT ![h] =
                                  firmware_context[PlatformOf(sr.value)]]
                     /\ ReturnStatement(h, "success", sr.error)
                ELSE \/ /\ \E g \in Values : out' = [out EXCEPT ![h] = g]
                        /\ ReturnStatement(h, "success", sr.error)
                     \/ /\ out' = out
                        /\ pc' = [pc EXCEPT ![h] = "halted"]
                        /\ ret' = [ret EXCEPT ![h] = "NONE"]
  /\ UNCHANGED << envvars, firmware_context, cur, regs, ntraps, hart_status,
                  effect >>

\* Byte i of a word (the context pointers of the model have two bytes).
ByteOf(w, i) == (w \div (256 ^ i)) % 256
\* The word w with its byte i replaced by that of v.
WithByte(w, i, v) == w + (ByteOf(v, i) - ByteOf(w, i)) * (256 ^ i)
\* The pieces in which a store of the field may be made (the field may
\* straddle a boundary of the memory system: struct sbi_platform is laid out
\* and placed by the runtime).
Pieces == { 0, 1 }

\* SbiSetFirmwareContext from the ecall's return.  Through a ScratchSpace
\* that is no scratch space the store faults (the hart stops) or lands in
\* memory that holds no platform structure.  SbiPlatform->firmware_context =
\* ... is a plain store to memory that other harts read and write: it is made
\* at once, or in two pieces, in either order; after the first piece i the
\* hart is at "stored0" or "stored1" until SbiSetFirmwareContextStore.
SbiSetFirmwareContextRet(h) ==
  /\ pc[h] = "ecall"
  /\ cur[h].op = "SbiSetFirmwareContext"
  /\ \E rt \in RuntimeReturns(h) :
       \E sr \in SbiCallResults(rt, regs[h].a[2]) :
         /\ rtret' = [rtret EXCEPT ![h] = rt]
         /\ sbiret' = [sbiret EXCEPT ![h] = sr]
         /\ IF sr.error # 0
              THEN /\ firmware_context' = firmware_context
                   /\ ReturnStatement(h, "success", sr.error)
              ELSE IF sr.value \in Scratches
                THEN \/ /\ firmware_context' =
                             [firmware_context EXCEPT ![PlatformOf(sr.value)] =
                                cur[h].params[1]]
                        /\ ReturnStatement(h, "success", sr.error)
                     \/ \E i \in Pieces :
                          /\ firmware_context' =
                               [firmware_context EXCEPT
                                  ![PlatformOf(sr.value)] =
                                    WithByte(@, i, cur[h].params[1])]
                          /\ pc' = [pc EXCEPT ![h] =
                                      IF i = 0 THEN "stored0" ELSE "stored1"]
                          /\ ret' = [ret EXCEPT ![h] = "NONE"]
                ELSE \/ /\ firmware_context' = firmware_context
                        /\ ReturnStatement(h, "success", sr.error)
                     \/ /\ firmware_context' = firmware_context
                        /\ pc' = [pc EXCEPT ![h] = "halted"]
                        /\ ret' = [ret EXCEPT ![h] = "NONE"]
  /\ UNCHANGED << envvars, cur, regs, ntraps, out, hart_status, effect >>

\* The second piece of the store of SbiSetFirmwareContext, and the wrapper's
\* return.
SbiSetFirmwareContextStore(h) ==
  /\ pc[h] \in { "stored0", "stored1" }
  /\ firmware_context' =
       [firmware_context EXCEPT ![PlatformOf(sbiret[h].value)] =
          WithByte(@, IF pc[h] = "stored0" THEN 1 ELSE 0, cur[h].params[1])]
  /\ ReturnStatement(h, "success", sbiret[h].error)
  /\ UNCHANGED << envvars, cur, regs, rtret, sbiret, ntraps, out, hart_status,
                  effect >>

\* ------------------------------------------------------- specification
\* The build and the runtime are fixed at start: the runtime implements the
\* extensions this library calls and no other (the legacy extension 0 and the
\* vendor extensions are absent), and the harts' scratch spaces name one
\* platform structure or one each.  The firmware context of every platform
\* structure is zero; no hart is inside a wrapper.
\* One hart, the boot hart, calls the library.
Callers == { 0 }

\* Implementation ids of 24 bits: the ids the SBI has assigned, the low 24
\* bits of the standard extension ids, single bits and both ends.
ImplIds ==
  { 0, 1, 2, 3, 4, 5, 16, 4739917, 7557193, 4803909, 4607555, 5592405,
    11184810, 8388608, 16777214, 16777215 }
    \cup { 2 ^ k : k \in 8 .. 22 }

\* The HartSpecific table when the firmware starts: every slot is zero.
ZeroHartSpecific == [i \in 0 .. (RISC_V_MAX_HART_SUPPORTED - 1) |-> 0]

\* All but the implementation id.
InitCommon ==
  /\ AssertHalts \in BOOLEAN
  /\ supported = { SBI_EXT_BASE, SBI_EXT_HSM, SBI_EXT_TIME, SBI_EXT_IPI,
                   SBI_EXT_RFENCE, SBI_EDK2_FW_EXT }
  /\ platform_addr \in { [h \in Harts |-> 0], [h \in Harts |-> h] }
  /\ firmware_context = [p \in Platforms |-> 0]
  /\ pc = [h \in Harts |-> "idle"]
  /\ cur = [h \in Harts |-> NoCall]
  /\ regs = [h \in Harts |-> NoRegs]
  /\ rtret = [h \in Harts |-> NoRet]
  /\ sbiret = [h \in Harts |-> NoRet]
  /\ ntraps = [h \in Harts |-> 0]
  /\ out = [h \in Harts |-> 0]
  /\ ret = [h \in Harts |-> "NONE"]
  /\ hart_status = [h \in Harts |-> IF h \in Callers THEN STARTED ELSE STOPPED]
  /\ effect = [h \in Harts |-> NoEffect]
  /\ HartSpecific = ZeroHartSpecific

\* The build takes the implementation id from OpenSBI's header.
Init ==
  /\ InitCommon
  /\ ImpId = SBI_OPENSBI_IMPID
  /\ FwExt = SBI_EDK2_FW_EXT

BaseCall(h) ==
  \/ SbiGetSpecVersion(h)
  \/ SbiGetImplId(h)
  \/ SbiGetImplVersion(h)
  \/ \E e \in ProbeIds : SbiProbeExtension(h, e)
  \/ SbiGetMvendorId(h)
  \/ SbiGetMarchId(h)
  \/ SbiGetMimpId(h)

HsmTimerIpiCall(h) ==
  \/ \E t \in HartIds, a \in Values, p \in Values : SbiHartStart(h, t, a, p)
  \/ SbiHartStop(h)
  \/ \E t \in HartIds : SbiHartGetStatus(h, t)
  \/ \E v \in Values : SbiSetTimer(h, v)
  \/ \E b \in HartMaskBits, mb \in HartMaskBases :
       SbiSendIpi(h, HartMaskAddr(h), b, mb)

RemoteFenceCall(h) ==
  \E b \in HartMaskBits, mb \in HartMaskBases, sa \in StartAddrs,
     sz \in Sizes, id \in Ids :
    \/ SbiRemoteFenceI(h, HartMaskAddr(h), b, mb)
    \/ SbiRemoteSfenceVma(h, HartMaskAddr(h), b, mb, sa, sz)
    \/ SbiRemoteSfenceVmaAsid(h, HartMaskAddr(h), b, mb, sa, sz, id)
    \/ SbiRemoteHFenceGvmaVmid(h, HartMaskAddr(h), b, mb, sa, sz, id)
    \/ SbiRemoteHFenceGvma(h, HartMaskAddr(h), b, mb, sa, sz)
    \/ SbiRemoteHFenceVvmaAsid(h, HartMaskAddr(h), b, mb, sa, sz, id)
    \/ SbiRemoteHFenceVvma(h, HartMaskAddr(h), b, mb, sa, sz)

VendorCall(h) ==
  \E e \in VendorExtIds, f \in FunctionIds, n \in 0 .. MaxNumArgs,
     base \in ArgBases :
    SbiVendorCall(h, e, f, n, VarArgs(n, base))

FirmwareCall(h) ==
  \/ SbiGetMscratch(h)
  \/ \E t \in HartIds : SbiGetMscratchHartid(h, t)
  \/ SbiGetFirmwareContext(h)
  \/ \E c \in ContextPtrs : SbiSetFirmwareContext(h, c)

Return(h) ==
  \/ EcallReturn(h)
  \/ SbiHartStopNoReturn(h)
  \/ SbiGetFirmwareContextRet(h)
  \/ SbiSetFirmwareContextRet(h)
  \/ SbiSetFirmwareContextStore(h)

Next ==
  \/ \E h \in Callers :
       \/ BaseCall(h)
       \/ HsmTimerIpiCall(h)
       \/ RemoteFenceCall(h)
       \/ VendorCall(h)
       \/ FirmwareCall(h)
       \/ Return(h)
       \/ WrapperExit(h)
  \/ \E t \in Harts : HartTransition(t)

Spec == Init /\ [][Next]_vars

\* Two harts call the hart-lifecycle wrappers, each on its own and at any
\* time: the boot hart starts the other harts, a hart that runs starts a
\* hart or stops itself.  The runtime completes every pending start and stop.
SmpCallers == { 0, 1 }

SmpHsmCall(h) ==
  \/ \E t \in Harts : SbiHartStart(h, t, 0, 0)
  \/ SbiHartStop(h)

NextSmp ==
  \/ \E h \in SmpCallers :
       \/ SmpHsmCall(h)
       \/ EcallReturn(h)
       \/ SbiHartStopNoReturn(h)
       \/ WrapperExit(h)
  \/ \E t \in Harts : HartTransition(t)

SpecSmp ==
  Init /\ [][NextSmp]_vars /\ \A t \in Harts : WF_vars(HartTransition(t))

\* Every hart calls the firmware extension, each on its own and at any time;
\* the harts start and stop each other as above.
NextCtx ==
  \/ \E h \in Harts :
       \/ SmpHsmCall(h)
       \/ FirmwareCall(h)
       \/ Return(h)
       \/ WrapperExit(h)
  \/ \E t \in Harts : HartTransition(t)

SpecCtx == Init /\ [][NextCtx]_vars

\* The firmware extension id for any implementation id of 24 bits: the build
\* is given the id and computes the extension id from it.
InitImpId ==
  /\ InitCommon
  /\ ImpId \in ImplIds
  /\ FwExt = 0

BuildFwExt ==
  /\ FwExt = 0
  /\ FwExt' = FwExtOf(ImpId)
  /\ UNCHANGED << AssertHalts, supported, platform_addr, firmware_context,
                  pc, cur, regs, rtret, sbiret, ntraps, out, ret,
                  hart_status, effect, HartSpecific, ImpId >>

NextImpId == BuildFwExt

SpecImpId == InitImpId /\ [][NextImpId]_vars

\* ================================================================ claims
\* The wrappers whose return statement is return TranslateError(ret.error).
TranslatingOps ==
  { "SbiHartStart", "SbiHartStop", "SbiHartGetStatus", "SbiSendIpi",
    "SbiVendorCall" } \cup RemoteFenceOps
BaseOps ==
  { "SbiGetSpecVersion", "SbiGetImplId", "SbiGetImplVersion",
    "SbiProbeExtension", "SbiGetMvendorId", "SbiGetMarchId", "SbiGetMimpId" }
\* The wrappers that have an output parameter and are no context accessor.
OutputOps == BaseOps \cup { "SbiHartGetStatus" }
\* Hart h has come back from the ecall of its invocation, and the wrapper has
\* returned.
Returned(h) == pc[h] = "done" /\ ntraps[h] = 1
\* The number of arguments each wrapper hands to SbiCallN.
Arity(op) ==
  CASE op \in BaseOps \cup { "SbiHartStop", "SbiGetMscratch" } \cup ContextOps -> 0
    [] op \in { "SbiHartGetStatus", "SbiSetTimer", "SbiGetMscratchHartid" } -> 1
    [] op \in { "SbiSendIpi", "SbiRemoteFenceI" } -> 2
    [] op = "SbiHartStart" -> 3
    [] op \in { "SbiRemoteSfenceVma", "SbiRemoteHFenceGvma",
                "SbiRemoteHFenceVvma" } -> 4
    [] op \in { "SbiRemoteSfenceVmaAsid", "SbiRemoteHFenceGvmaVmid",
                "SbiRemoteHFenceVvmaAsid" } -> 5

\* C1: a wrapper that returns TranslateError of its trap's status returns,
\* for each of the seven defined status codes, the result the table names
\* (0 EFI_SUCCESS, -1 EFI_DEVICE_ERROR, -2 EFI_UNSUPPORTED,
\* -3 EFI_INVALID_PARAMETER, -4 EFI_ACCESS_DENIED, -5 EFI_LOAD_ERROR,
\* -6 EFI_ALREADY_STARTED), whatever else the call was, and the seven
\* results are pairwise different.
C1_Table ==
  [e \in -6 .. 0 |->
     CASE e = 0 -> "EFI_SUCCESS"
       [] e = -1 -> "EFI_DEVICE_ERROR"
       [] e = -2 -> "EFI_UNSUPPORTED"
       [] e = -3 -> "EFI_INVALID_PARAMETER"
       [] e = -4 -> "EFI_ACCESS_DENIED"
       [] e = -5 -> "EFI_LOAD_ERROR"
       [] e = -6 -> "EFI_ALREADY_STARTED"]
C1_TranslateErrorMapsSevenCodes ==
  /\ \A h \in Harts :
       (Returned(h) /\ cur[h].op \in TranslatingOps
          /\ sbiret[h].error \in -6 .. 0)
         => ret[h] = C1_Table[sbiret[h].error]
  /\ \A e1, e2 \in -6 .. 0 :
       e1 # e2 => TranslateError(e1) # TranslateError(e2)
C1_Witness ==
  \E h \in Harts :
    /\ Returned(h) /\ cur[h].op = "SbiHartStart"
    /\ sbiret[h].error = -5 /\ ret[h] = "EFI_LOAD_ERROR"

\* C2 (the claim as stated): when the status of the trap is none of the seven
\* defined codes, the wrapper does not return to its caller a result that is
\* the result of a defined code.
C2_UndefinedCodeNeverReturnsKnownResult ==
  \A h \in Harts :
    (Returned(h) /\ cur[h].op \in TranslatingOps
       /\ sbiret[h].error \notin -6 .. 0)
      => ret[h] \notin { C1_Table[e] : e \in -6 .. 0 }

\* C3: SbiVendorCall with NumArgs > 6 and an extension id of the vendor range
\* returns EFI_INVALID_PARAMETER and has executed no ecall.
C3_VendorCallTooManyArgs ==
  \A h \in Harts :
    (cur[h].op = "SbiVendorCall" /\ cur[h].params[3] > 6
       /\ cur[h].params[1] >= 150994944 /\ cur[h].params[1] <= 167772159)
      => /\ pc[h] = "done"
         /\ ret[h] = "EFI_INVALID_PARAMETER"
         /\ ntraps[h] = 0
C3_Witness ==
  \E h \in Harts :
    /\ cur[h].op = "SbiVendorCall" /\ cur[h].params[3] = 7
    /\ cur[h].params[1] = 150994944
    /\ pc[h] = "done" /\ ret[h] = "EFI_INVALID_PARAMETER"

\* C4 (the claim as stated): SbiVendorCall with an extension id outside
\* [0x09000000, 0x09FFFFFF] stops at the ASSERT and executes no ecall.
C4_VendorCallOutOfRangeNoTrap ==
  \A h \in Harts :
    (cur[h].op = "SbiVendorCall"
       /\ (cur[h].params[1] < 150994944 \/ cur[h].params[1] > 167772159))
      => pc[h] = "halted" /\ ntraps[h] = 0

\* C5 (the claim as stated): every ecall has zero in the argument registers
\* behind the arguments the wrapper supplied, an invocation executes one
\* ecall, and the struct sbiret the wrapper receives holds what the runtime
\* left in a0 (error) and a1 (value).
C5_SbiCallRegistersAndResult ==
  \A h \in Harts :
    /\ (ntraps[h] = 1 /\ cur[h].op # "SbiVendorCall")
         => \A i \in (Arity(cur[h].op) + 1) .. 6 : regs[h].a[i] = 0
    /\ ntraps[h] \in { 0, 1 }
    /\ (ntraps[h] = 1 /\ pc[h] # "ecall")
         => /\ sbiret[h].error = rtret[h].error
            /\ sbiret[h].value = rtret[h].value

\* C6: every ecall of a wrapper carries in a7 the extension id of the
\* wrapper's group (Base 0x10, HSM 0x48534D, Timer 0x54494D45, IPI 0x735049,
\* remote fence 0x52464E43, firmware extension inside 0x0A000000..0x0AFFFFFF)
\* and, for the Base, HSM and firmware-extension wrappers, in a6 the function
\* id of the operation.
C6_FunctionId ==
  [op \in BaseOps \cup { "SbiHartStart", "SbiHartStop", "SbiHartGetStatus",
                         "SbiGetMscratch", "SbiGetMscratchHartid" }
             \cup ContextOps |->
     CASE op = "SbiGetSpecVersion" -> 0
       [] op = "SbiGetImplId" -> 1
       [] op = "SbiGetImplVersion" -> 2
       [] op = "SbiProbeExtension" -> 3
       [] op = "SbiGetMvendorId" -> 4
       [] op = "SbiGetMarchId" -> 5
       [] op = "SbiGetMimpId" -> 6
       [] op = "SbiHartStart" -> 0
       [] op = "SbiHartStop" -> 1
       [] op = "SbiHartGetStatus" -> 2
       [] op = "SbiGetMscratchHartid" -> 1
       [] OTHER -> 0]
C6_WrapperExtensionAndFunctionIds ==
  \A h \in Harts :
    ntraps[h] = 1 =>
      LET op == cur[h].op
          r == regs[h]
      IN /\ op \in BaseOps => r.a7 = 16
         /\ op \in { "SbiHartStart", "SbiHartStop", "SbiHartGetStatus" }
              => r.a7 = 4739917
         /\ op = "SbiSetTimer" => r.a7 = 1414090053
         /\ op = "SbiSendIpi" => r.a7 = 7557193
         /\ op \in RemoteFenceOps => r.a7 = 1380339267
         /\ op \in { "SbiGetMscratch", "SbiGetMscratchHartid" } \cup ContextOps
              => r.a7 >= 167772160 /\ r.a7 <= 184549375
         /\ op \in DOMAIN C6_FunctionId => r.a6 = C6_FunctionId[op]
C6_Witness ==
  \E h \in Harts :
    /\ ntraps[h] = 1 /\ cur[h].op = "SbiHartGetStatus"
    /\ regs[h].a7 = 4739917 /\ regs[h].a6 = 2

\* C7 (the claim as stated): after a wrapper with an output parameter has
\* returned, the output variable holds the value of the wrapper's struct
\* sbiret when its error is 0, and what it held at entry when the error is
\* not 0.
C7_OutputWrittenOnlyOnSuccess ==
  \A h \in Harts :
    (Returned(h) /\ cur[h].op \in OutputOps)
      => /\ sbiret[h].error = 0 => out[h] = sbiret[h].value
         /\ sbiret[h].error # 0 => out[h] = cur[h].out0

\* C8 (the claim as stated): except for the two firmware-context accessors,
\* a wrapper whose trap returned one of the six failure codes returns the
\* failure result of that code to its caller.
C8_FailureNeverSwallowed ==
  \A h \in Harts :
    (Returned(h) /\ cur[h].op \notin ContextOps
       /\ sbiret[h].error \in -6 .. -1)
      => ret[h] = C1_Table[sbiret[h].error]

\* C9 (the claim as stated): after a SbiProbeExtension whose trap succeeded
\* (and whose value was read back as the runtime left it), ProbeResult is not
\* 0 exactly if the runtime implements the extension the caller named.
C9_ProbeResultIsOfExtensionId ==
  \A h \in Harts :
    (Returned(h) /\ cur[h].op = "SbiProbeExtension"
       /\ rtret[h].error = 0 /\ sbiret[h].value = rtret[h].value)
      => (out[h] # 0 <=> cur[h].params[1] \in supported)

\* C10: every return of SbiGetFirmwareContext and SbiSetFirmwareContext
\* carries EFI_SUCCESS; when the trap's status is not 0 the accessor does
\* return, and SbiGetFirmwareContext leaves its output variable as it was.
C10_ContextAccessorsReportSuccess ==
  \A h \in Harts :
    (cur[h].op \in ContextOps /\ ntraps[h] = 1 /\ pc[h] # "ecall")
      => /\ pc[h] = "done" => ret[h] = "EFI_SUCCESS"
         /\ sbiret[h].error # 0
              => /\ pc[h] = "done"
                 /\ cur[h].op = "SbiGetFirmwareContext"
                      => out[h] = cur[h].out0
C10_Witness ==
  \E h \in Harts :
    /\ cur[h].op = "SbiGetFirmwareContext" /\ pc[h] = "done"
    /\ sbiret[h].error = -1 /\ ret[h] = "EFI_SUCCESS"
    /\ sbiret[h].value # cur[h].out0 /\ out[h] = cur[h].out0

\* The wrappers that take a hart mask.
MaskedOps == { "SbiSendIpi" } \cup RemoteFenceOps
\* The harts that mask bits Bits over base Base denote.
MaskSet(Bits, Base) == { Base + i : i \in { k \in 0 .. 7 : (Bits \div (2 ^ k)) % 2 = 1 } }

\* C11: SbiHartStop never returns EFI_SUCCESS: when the runtime accepts the
\* stop the call does not return and the calling hart leaves STARTED; every
\* return of SbiHartStop carries the result of a failed trap.
C11_HartStopNeverReturnsSuccess ==
  \A h \in Harts :
    cur[h].op = "SbiHartStop" =>
      /\ pc[h] = "done"
           => /\ ret[h] \notin { "EFI_SUCCESS", "VOID", "NONE" }
              /\ sbiret[h].error # 0
      /\ pc[h] = "stopped" => (hart_status[h] # 0 /\ ret[h] = "NONE")
C11_Witness ==
  \E h \in Harts :
    /\ cur[h].op = "SbiHartStop" /\ pc[h] = "done"
    /\ sbiret[h].error = -1 /\ ret[h] = "EFI_DEVICE_ERROR"

\* C12: when the runtime answers a SbiHartStart(t, addr, priv) while hart t is
\* STARTED, the wrapper returns EFI_ALREADY_STARTED and hart t is STARTED
\* still, whatever addr and priv are.
C12_HartStartOnStartedHart ==
  [][\A h \in Harts :
       (/\ pc[h] = "ecall" /\ cur[h].op = "SbiHartStart"
        /\ cur[h].params[1] \in Harts
        /\ hart_status[cur[h].params[1]] = 0
        /\ pc'[h] # "ecall")
         => /\ pc'[h] = "done"
            /\ ret'[h] = "EFI_ALREADY_STARTED"
            /\ hart_status'[cur[h].params[1]] = 0]_vars
C12_Witness ==
  \E h \in Harts :
    /\ cur[h].op = "SbiHartStart" /\ pc[h] = "done"
    /\ cur[h].params[1] = 1 /\ cur[h].params[2] = 1
    /\ hart_status[1] = 0
    /\ sbiret[h].error = -6 /\ ret[h] = "EFI_ALREADY_STARTED"

\* C13: a masked wrapper (SbiSendIpi, the remote fences) called with
\* HartMaskBase = -1 names exactly the harts of the platform, whatever the
\* mask bits are, and reaches every one of them when the trap succeeds.
C13_MaskBaseAllTargetsKnownHarts ==
  \A h \in Harts :
    (ntraps[h] = 1 /\ pc[h] # "ecall" /\ cur[h].op \in MaskedOps
       /\ cur[h].params[3] = -1)
      => /\ effect[h].named = Harts
         /\ rtret[h].error = 0 => effect[h].targets = Harts
C13_Witness ==
  \E h \in Harts :
    /\ Returned(h) /\ cur[h].op = "SbiSendIpi"
    /\ cur[h].params[2] = 6 /\ cur[h].params[3] = -1
    /\ ret[h] = "EFI_SUCCESS" /\ effect[h].targets = Harts

\* C14 (the claim as stated): SbiSendIpi with mask bits B and base b names
\* exactly the harts b + i for the set bits i of B; when one of them is no
\* hart of the platform the call returns EFI_INVALID_PARAMETER and no hart
\* receives the signal.
C14_SendIpiTargetsMaskBits ==
  \A h \in Harts :
    (ntraps[h] = 1 /\ pc[h] # "ecall" /\ cur[h].op = "SbiSendIpi"
       /\ cur[h].params[3] # -1)
      => LET S == MaskSet(cur[h].params[2], cur[h].params[3]) IN
           /\ effect[h].named = S
           /\ ~(S \subseteq Harts)
                => /\ effect[h].targets = { }
                   /\ pc[h] = "done" => ret[h] = "EFI_INVALID_PARAMETER"

\* C15: a successful SbiRemoteSfenceVma with StartAddr = 0 and Size = 0 does
\* to every hart it names what one with Size = 2^XLEN - 1 does: a full flush
\* by SFENCE.VMA, never nothing.
C15_SfenceVmaZeroIsFullFlush ==
  \A h \in Harts :
    (Returned(h) /\ cur[h].op = "SbiRemoteSfenceVma" /\ rtret[h].error = 0
       /\ \/ cur[h].params[4] = 0 /\ cur[h].params[5] = 0
          \/ cur[h].params[5] = -1)
      => effect[h] = [kind |-> "sfence_vma", named |-> effect[h].named,
                      targets |-> effect[h].named, full |-> TRUE, id |-> 0]
C15_Witness ==
  \E h \in Harts :
    /\ Returned(h) /\ cur[h].op = "SbiRemoteSfenceVma"
    /\ cur[h].params[3] = -1 /\ cur[h].params[4] = 0 /\ cur[h].params[5] = 0
    /\ ret[h] = "EFI_SUCCESS"
    /\ effect[h].full /\ effect[h].targets = Harts

\* C16 (the claim as stated): every SbiHartGetStatus executes its own ecall,
\* one, and when the trap succeeds HartStatus holds the status the runtime
\* held for the hart at that trap.
C16_HartGetStatusReportsStatusAtTrap ==
  \A h \in Harts :
    (cur[h].op = "SbiHartGetStatus" /\ pc[h] # "idle")
      => /\ ntraps[h] = 1
         /\ (pc[h] = "done" /\ rtret[h].error = 0) => out[h] = rtret[h].value

\* C17: no invocation of a wrapper executes more than one ecall; an ecall in
\* progress is the first of its invocation (no answer came before it), so a
\* failed trap is never issued again.
C17_NoWrapperRetries ==
  \A h \in Harts :
    /\ ntraps[h] <= 1
    /\ pc[h] = "ecall"
         => (ntraps[h] = 1 /\ rtret[h] = NoRet /\ sbiret[h] = NoRet)
    /\ (pc[h] = "done" /\ ntraps[h] = 1 /\ cur[h].op \in TranslatingOps
          /\ sbiret[h].error \in -6 .. -1)
         => ret[h] = C1_Table[sbiret[h].error]
C17_Witness ==
  \E h \in Harts :
    /\ Returned(h) /\ cur[h].op = "SbiSendIpi"
    /\ sbiret[h].error = -1 /\ ret[h] = "EFI_DEVICE_ERROR"

\* C18: the HartSpecific table of the firmware context has the 16 slots
\* 0 .. 15 in every state; the slots are zero at start and no operation of the
\* library adds, removes or writes one.
C18_ContextTableHasSixteenSlots ==
  /\ DOMAIN HartSpecific = 0 .. 15
  /\ Cardinality(DOMAIN HartSpecific) = 16
  /\ \A i \in DOMAIN HartSpecific : HartSpecific[i] = 0
C18_Witness ==
  /\ \E h \in Harts :
       /\ cur[h].op = "SbiSetFirmwareContext" /\ pc[h] = "done"
       /\ firmware_context[platform_addr[h]] = 257
  /\ DOMAIN HartSpecific = 0 .. 15

\* C19: for every implementation id of 24 bits, the firmware extension id
\* (0x0A000000 | id) lies in 0x0A000000 .. 0x0AFFFFFF, is none of the standard
\* extension ids 0x10, 0x48534D, 0x54494D45, 0x735049, 0x52464E43 and lies
\* outside the vendor range 0x09000000 .. 0x09FFFFFF.
C19_FirmwareExtensionIdApart ==
  FwExt # 0 =>
    /\ FwExt >= 167772160 /\ FwExt <= 184549375
    /\ FwExt \notin { 16, 4739917, 1414090053, 7557193, 1380339267 }
    /\ ~(FwExt >= 150994944 /\ FwExt <= 167772159)
C19_Witness == ImpId = 16777215 /\ FwExt = 184549375

\* C20 (the claim as stated): each remote-fence wrapper puts into a6 the
\* function id of the variant it is named after; a wrapper with an ASID or
\* VMID passes it as fifth argument, one without passes four arguments
\* (mask, base, start, size).
C20_FunctionId ==
  [op \in RemoteFenceOps \ { "SbiRemoteFenceI" } |->
     CASE op = "SbiRemoteSfenceVma" -> SBI_EXT_RFENCE_REMOTE_SFENCE_VMA
       [] op = "SbiRemoteSfenceVmaAsid" -> SBI_EXT_RFENCE_REMOTE_SFENCE_VMA_ASID
       [] op = "SbiRemoteHFenceGvmaVmid" -> SBI_EXT_RFENCE_REMOTE_HFENCE_GVMA_VMID
       [] op = "SbiRemoteHFenceGvma" -> SBI_EXT_RFENCE_REMOTE_HFENCE_GVMA
       [] op = "SbiRemoteHFenceVvmaAsid" -> SBI_EXT_RFENCE_REMOTE_HFENCE_VVMA_ASID
       [] op = "SbiRemoteHFenceVvma" -> SBI_EXT_RFENCE_REMOTE_HFENCE_VVMA]
C20_RemoteFenceFunctionIds ==
  \A h \in Harts :
    (ntraps[h] = 1 /\ cur[h].op \in DOMAIN C20_FunctionId)
      => LET p == cur[h].params
             r == regs[h]
         IN /\ r.a6 = C20_FunctionId[cur[h].op]
            /\ r.a[1] = p[1] /\ r.a[2] = p[3] /\ r.a[3] = p[4] /\ r.a[4] = p[5]
            /\ r.a[5] = (IF Len(p) = 6 THEN p[6] ELSE 0)
            /\ r.a[6] = 0

\* C21 (the claim as stated): SbiVendorCall with 0 <= NumArgs <= 6 and an
\* extension id inside [0x09000000, 0x09FFFFFF] executes one ecall with the
\* caller's ExtensionId in a7 and FunctionId in a6, the i-th variadic
\* argument in the i-th argument register and zero in the registers behind
\* them, and returns the translation of what the runtime left in a0.
C21_VendorCallForwardsArgumentsInOrder ==
  \A h \in Harts :
    LET p == cur[h].params IN
      (cur[h].op = "SbiVendorCall"
         /\ p[1] >= 150994944 /\ p[1] <= 167772159 /\ p[3] \in 0 .. 6)
        => /\ ntraps[h] = 1
           /\ regs[h].a7 = p[1] /\ regs[h].a6 = p[2]
           /\ \A i \in 1 .. 6 :
                regs[h].a[i] = (IF i <= p[3] THEN p[3 + i] ELSE 0)
           /\ (pc[h] = "done" /\ rtret[h].error \in -6 .. 0)
                => ret[h] = C1_Table[rtret[h].error]

\* The wrappers of the hart-lifecycle, IPI and remote-fence groups.
C22_Ops ==
  { "SbiHartStart", "SbiHartStop", "SbiHartGetStatus", "SbiSendIpi" }
    \cup RemoteFenceOps
\* The fences of the hypervisor extension.
HypervisorFenceOps ==
  { "SbiRemoteHFenceGvmaVmid", "SbiRemoteHFenceGvma",
    "SbiRemoteHFenceVvmaAsid", "SbiRemoteHFenceVvma" }

\* C22: a wrapper of the hart-lifecycle, IPI or remote-fence group that
\* returns, returns the translation of the status the runtime left in a0 for
\* the wrapper's own ecall: a failure code never comes back as EFI_SUCCESS,
\* and SBI_ERR_NOT_SUPPORTED of a hypervisor fence comes back as
\* EFI_UNSUPPORTED.
C22_GroupWrappersReturnTranslatedStatus ==
  \A h \in Harts :
    (Returned(h) /\ cur[h].op \in C22_Ops)
      => /\ rtret[h].error \in -6 .. 0 => ret[h] = C1_Table[rtret[h].error]
         /\ rtret[h].error # 0 => ret[h] # "EFI_SUCCESS"
         /\ (cur[h].op \in HypervisorFenceOps /\ rtret[h].error = -2)
              => ret[h] = "EFI_UNSUPPORTED"
\* A hypervisor fence has come back with EFI_UNSUPPORTED.
C22_Witness ==
  \E h \in Harts :
    /\ Returned(h) /\ cur[h].op = "SbiRemoteHFenceGvma"
    /\ rtret[h].error = -2 /\ ret[h] = "EFI_UNSUPPORTED"

\* Hart h gets the answer EFI_SUCCESS from SbiHartStart in this step.
C23_StartAccepted(h) ==
  /\ pc[h] = "ecall" /\ cur[h].op = "SbiHartStart"
  /\ pc'[h] = "done" /\ ret'[h] = "EFI_SUCCESS"

\* C23: SbiHartStart returns EFI_SUCCESS only for a hart that is STOPPED when
\* the runtime answers, and leaves it in START_REQUEST_PENDING; no hart goes
\* from STOPPED to STARTED in one step, and a hart enters
\* START_REQUEST_PENDING from STOPPED only; a hart in START_REQUEST_PENDING
\* becomes STARTED eventually (the runtime completes pending requests).
C23_HartStartLifecycle ==
  /\ [][/\ \A h \in Harts :
             C23_StartAccepted(h)
               => /\ cur[h].params[1] \in Harts
                  /\ hart_status[cur[h].params[1]] = STOPPED
                  /\ hart_status'[cur[h].params[1]] = START_REQUEST_PENDING
        /\ \A t \in Harts :
             /\ ~(hart_status[t] = STOPPED /\ hart_status'[t] = STARTED)
             /\ (hart_status'[t] = START_REQUEST_PENDING
                   /\ hart_status[t] # START_REQUEST_PENDING)
                  => hart_status[t] = STOPPED
             /\ (hart_status'[t] = STARTED /\ hart_status[t] # STARTED)
                  => hart_status[t] = START_REQUEST_PENDING]_vars
  /\ \A t \in Harts :
       (hart_status[t] = START_REQUEST_PENDING) ~> (hart_status[t] = STARTED)
\* SbiHartStart has returned EFI_SUCCESS and the hart it named is still in
\* START_REQUEST_PENDING.
C23_Witness ==
  \E h \in Harts :
    /\ Returned(h) /\ cur[h].op = "SbiHartStart" /\ ret[h] = "EFI_SUCCESS"
    /\ cur[h].params[1] # h
    /\ hart_status[cur[h].params[1]] = START_REQUEST_PENDING

\* Hart h is inside SbiSetFirmwareContext, at or behind its ecall: its store
\* is still to come or partly made.
InSetFirmwareContext(h) ==
  /\ cur[h].op = "SbiSetFirmwareContext"
  /\ pc[h] \in { "ecall", "stored0", "stored1" }
\* Hart h comes back from the ecall of SbiGetFirmwareContext in this step.
GetFirmwareContextStep(h) ==
  cur[h].op = "SbiGetFirmwareContext" /\ pc[h] = "ecall" /\ pc'[h] # pc[h]

\* C25 (the claim as stated): a step of SbiSetFirmwareContext on hart h
\* leaves the firmware context that every other hart g reaches through its
\* own scratch space (what SbiGetFirmwareContext on g reads) as it was.
C25_SetChangesOnlyOwnContext ==
  [][\A h \in Harts :
       (InSetFirmwareContext(h) /\ pc'[h] # pc[h])
         => \A g \in Harts \ { h } :
              firmware_context'[platform_addr[g]]
                = firmware_context[platform_addr[g]]]_vars

\* C26 (the claim as stated): SbiSetFirmwareContext (P) whose ecall succeeded
\* has stored P as the context of its hart when it returns, and one whose
\* ecall failed has left every context as it was; SbiGetFirmwareContext whose
\* ecall succeeded hands out the context stored for its hart.  (So a Get
\* after a Set on one hart, with no Set in between, hands out P.)
C26_ContextRoundTrip ==
  [][\A h \in Harts :
       /\ (InSetFirmwareContext(h) /\ pc'[h] = "done")
            => IF rtret'[h].error = 0
                 THEN firmware_context'[platform_addr[h]] = cur[h].params[1]
                 ELSE firmware_context' = firmware_context
       /\ (cur[h].op = "SbiGetFirmwareContext" /\ pc[h] = "ecall"
             /\ pc'[h] = "done" /\ rtret'[h].error = 0)
            => out'[h] = firmware_context[platform_addr[h]]]_vars

====
